---- MODULE Spec2Model ----
(***************************************************************************)
(* Video Screenshot Extractor (src/streamlit_app.py).                      *)
(*                                                                         *)
(* The model follows one press of the "Process Video" button in main(),    *)
(* or one direct call of extract_screenshots_at_timestamps(), step by      *)
(* step: saving the upload, opening the capture, reading its properties,   *)
(* the per-timestamp loop, the release, the zip and the clean-up.          *)
(*                                                                         *)
(* The decoder (cv2.VideoCapture) is the environment.  A video is          *)
(*   opened      - whether VideoCapture could open the file                *)
(*   cap_fps     - CAP_PROP_FPS as the float cv2 reports: a whole part     *)
(*                 and whether a fractional part follows it                *)
(*   frame_count - CAP_PROP_FRAME_COUNT                                    *)
(*   healthy     - every frame below frame_count decodes; otherwise a      *)
(*                 read inside the stream may or may not return a frame    *)
(* A capture that could not be opened reports 0.0 for every property.      *)
(* A read at a position >= frame_count returns no frame.                   *)
(***************************************************************************)
EXTENDS Integers, Sequences, FiniteSets, TLC

VARIABLES
    mode,             \* "none" | "main" (button in main) | "direct" (the function called on its own)
    pc,               \* position of the run
    video,            \* the uploaded video, as the decoder sees it
    timestamps,       \* the list object the caller passes to the extractor
    requested,        \* history: the elements of that list when the call was made
    handle_open,      \* cap holds an opened video that was not released
    i,                \* 1-based index of the loop's next element
    screenshot_paths, \* the extractor's result list
    skipped,          \* st.warning calls of the loop, in order
    cap_calls,        \* history: cap.set / cap.read calls of the loop, in order
    outcome,          \* how the extractor call ended: "none" | "returned" | "raised"
    errors,           \* st.error calls of main, in order
    fs,               \* temporary files and directories that exist on disk
    zip_entries       \* arcnames written to screenshots.zip, in order

vars == <<mode, pc, video, timestamps, requested, handle_open, i,
          screenshot_paths, skipped, cap_calls, outcome, errors, fs, zip_entries>>

-----------------------------------------------------------------------------
(* Bounds of the inputs *)

MaxLen == 2      \* longest request list
MaxMinute == 1   \* largest Minute entered
MaxSecond == 1   \* largest Second entered
MaxFps == 2      \* largest whole part of the reported frame rate

(* Program constants *)

SecondsPerMinute == 60

-----------------------------------------------------------------------------
(* Pure helpers *)

\* minutes * 60 + seconds
TimestampSeconds(t) == t[1] * SecondsPerMinute + t[2]

\* int(cap.get(cv2.CAP_PROP_FPS)): truncation drops the fractional part;
\* an unopened capture reports 0.0
Fps(v) == IF v.opened THEN v.cap_fps.whole ELSE 0

\* int(cap.get(cv2.CAP_PROP_FRAME_COUNT))
TotalFrames(v) == IF v.opened THEN v.frame_count ELSE 0

\* the duration check with the frame rate left out of it
ExceedsDurationNoFps(t, v) == TimestampSeconds(t) > TotalFrames(v)

\* timestamp_seconds > duration, with duration = total_frames / fps a true
\* division and fps >= 1: the same as timestamp_seconds * fps > total_frames
ExceedsDuration(t, v) == TimestampSeconds(t) * Fps(v) > TotalFrames(v)

\* int(timestamp_seconds * fps)
FramePosition(t, v) == TimestampSeconds(t) * Fps(v)

\* the outcomes cap.read() can have after cap.set(POS_FRAMES, pos)
ReadOutcomes(pos, v) ==
    IF pos >= TotalFrames(v) THEN {FALSE}
    ELSE IF v.healthy THEN {TRUE}
    ELSE {TRUE, FALSE}

\* Python's order on (minutes, seconds) tuples
TupleLess(a, b) == a[1] < b[1] \/ (a[1] = b[1] /\ a[2] < b[2])

RECURSIVE Insert(_, _)
Insert(t, s) ==
    IF s = <<>> THEN <<t>>
    ELSE IF TupleLess(t, Head(s)) THEN <<t>> \o s
    ELSE <<Head(s)>> \o Insert(t, Tail(s))

\* the list left in its input order
UnsortedList(s) == s

RECURSIVE SortedList(_)
\* the list after timestamps.sort()
SortedList(s) ==
    IF s = <<>> THEN <<>>
    ELSE Insert(s[Len(s)], SortedList(SubSeq(s, 1, Len(s) - 1)))

\* f"screenshot_{minutes}m_{seconds}s.jpg"
ScreenshotFilename(t) ==
    "screenshot_" \o ToString(t[1]) \o "m_" \o ToString(t[2]) \o "s.jpg"

\* os.path.join(dir, name)
PathJoin(dir, name) == [dir |-> dir, name |-> name]

\* os.path.basename(path)
Basename(path) == path.name

\* tempfile.mkdtemp(): the directory and the string naming it
TempDirEntry == PathJoin("/tmp", "tmpdir")
TempDir == "/tmp/tmpdir"

\* tempfile.NamedTemporaryFile(delete=False, suffix='.mp4')
TempVideoPath == PathJoin("/tmp", "tmpvideo.mp4")

ScreenshotPath(t) == PathJoin(TempDir, ScreenshotFilename(t))

ZipPath == PathJoin(TempDir, "screenshots.zip")

\* the entry named by the whole path
ArcnameFullPath(path) == path

\* the name an entry gets in the archive: the bare file name
Arcname(path) == PathJoin("", Basename(path))

\* the emptiness test with the comparison mistyped
NoTimestampsNegative(ts) == Len(ts) < 0

\* len(timestamps) == 0
NoTimestamps(ts) == Len(ts) = 0

-----------------------------------------------------------------------------
(* Inputs *)

Timestamps == (0 .. MaxMinute) \X (0 .. MaxSecond)

RequestLists == UNION {[1 .. n -> Timestamps] : n \in 0 .. MaxLen}

CapFps == [whole : 0 .. MaxFps, frac : BOOLEAN]

\* frame counts at and just after the positions the requests ask for
FrameCounts(ts, f) ==
    {0} \cup {TimestampSeconds(ts[k]) * f.whole + d : k \in 1 .. Len(ts), d \in 0 .. 1}

Videos(ts) ==
    {[opened |-> FALSE, cap_fps |-> [whole |-> 0, frac |-> FALSE],
      frame_count |-> 0, healthy |-> TRUE]}
    \cup
    UNION {{[opened |-> TRUE, cap_fps |-> f, frame_count |-> n, healthy |-> h] :
                n \in FrameCounts(ts, f), h \in BOOLEAN} : f \in CapFps}

NoVideo == [opened |-> FALSE, cap_fps |-> [whole |-> 0, frac |-> FALSE],
            frame_count |-> 0, healthy |-> TRUE]

-----------------------------------------------------------------------------
Init ==
    /\ mode = "none"
    /\ pc = "idle"
    /\ video = NoVideo
    /\ timestamps = <<>>
    /\ requested = <<>>
    /\ handle_open = FALSE
    /\ i = 1
    /\ screenshot_paths = <<>>
    /\ skipped = <<>>
    /\ cap_calls = <<>>
    /\ outcome = "none"
    /\ errors = <<>>
    /\ fs = {}
    /\ zip_entries = <<>>

-----------------------------------------------------------------------------
(* main(): the "Process Video" button *)

\* the button pressed with no timestamp in the editor: an error is shown and
\* nothing else happens
ProcessEmpty ==
    /\ pc = "idle"
    /\ \E ts \in RequestLists : \E v \in Videos(ts) :
        /\ NoTimestamps(ts)
        /\ video' = v
        /\ mode' = "main"
        /\ timestamps' = ts
        /\ requested' = ts
        /\ errors' = Append(errors, "add_timestamp")
        /\ pc' = "ended"
    /\ UNCHANGED <<handle_open, i, screenshot_paths, skipped, cap_calls,
                   outcome, fs, zip_entries>>

\* the button pressed with timestamps: the upload is saved to a temporary
\* file and the extractor is called with the list built from the editor
ProcessVideo ==
    /\ pc = "idle"
    /\ \E ts \in RequestLists : \E v \in Videos(ts) :
        /\ ~NoTimestamps(ts)
        /\ video' = v
        /\ mode' = "main"
        /\ timestamps' = ts
        /\ requested' = ts
        /\ fs' = fs \cup {TempVideoPath}
        /\ pc' = "open"
    /\ UNCHANGED <<handle_open, i, screenshot_paths, skipped, cap_calls,
                   outcome, errors, zip_entries>>

\* extract_screenshots_at_timestamps called on its own, with any list
CallExtract ==
    /\ pc = "idle"
    /\ \E ts \in RequestLists : \E v \in Videos(ts) :
        /\ video' = v
        /\ mode' = "direct"
        /\ timestamps' = ts
        /\ requested' = ts
        /\ pc' = "open"
    /\ UNCHANGED <<handle_open, i, screenshot_paths, skipped, cap_calls,
                   outcome, errors, fs, zip_entries>>

-----------------------------------------------------------------------------
(* extract_screenshots_at_timestamps *)

\* cap = cv2.VideoCapture(video_path)
OpenCapture ==
    /\ pc = "open"
    /\ handle_open' = video.opened
    /\ pc' = "props"
    /\ UNCHANGED <<mode, video, timestamps, requested, i, screenshot_paths,
                   skipped, cap_calls, outcome, errors, fs, zip_entries>>

\* duration = total_frames / fps with fps = 0: ZeroDivisionError leaves the
\* function at once
PropsRaise ==
    /\ pc = "props"
    /\ Fps(video) = 0
    /\ outcome' = "raised"
    /\ pc' = IF mode = "main" THEN "except" ELSE "ended"
    /\ UNCHANGED <<mode, video, timestamps, requested, handle_open, i,
                   screenshot_paths, skipped, cap_calls, errors, fs, zip_entries>>

\* the properties are read, the temporary directory is made, the result
\* list starts empty and the caller's list is sorted in place
Prepare ==
    /\ pc = "props"
    /\ Fps(video) # 0
    /\ fs' = fs \cup {TempDirEntry}
    /\ screenshot_paths' = <<>>
    /\ timestamps' = SortedList(timestamps)
    /\ i' = 1
    /\ pc' = "loop"
    /\ UNCHANGED <<mode, video, requested, handle_open, skipped, cap_calls,
                   outcome, errors, zip_entries>>

\* one iteration: the timestamp exceeds the duration
IterExceeds ==
    /\ pc = "loop"
    /\ i <= Len(timestamps)
    /\ ExceedsDuration(timestamps[i], video)
    /\ skipped' = Append(skipped, [ts |-> timestamps[i], reason |-> "exceeds"])
    /\ i' = i + 1
    /\ UNCHANGED <<mode, pc, video, timestamps, requested, handle_open,
                   screenshot_paths, cap_calls, outcome, errors, fs, zip_entries>>

\* one iteration: seek, read a frame, write it and append its path
IterCaptured ==
    /\ pc = "loop"
    /\ i <= Len(timestamps)
    /\ ~ExceedsDuration(timestamps[i], video)
    /\ LET t == timestamps[i]
           pos == FramePosition(t, video)
       IN /\ TRUE \in ReadOutcomes(pos, video)
          /\ cap_calls' = Append(cap_calls, [ts |-> t, pos |-> pos, ret |-> TRUE])
          /\ fs' = fs \cup {ScreenshotPath(t)}
          /\ screenshot_paths' = Append(screenshot_paths, ScreenshotPath(t))
    /\ i' = i + 1
    /\ UNCHANGED <<mode, pc, video, timestamps, requested, handle_open,
                   skipped, outcome, errors, zip_entries>>

\* the failed read ending the loop instead of going on
IterReadFailedBreak ==
    /\ pc = "loop"
    /\ i <= Len(timestamps)
    /\ ~ExceedsDuration(timestamps[i], video)
    /\ LET t == timestamps[i]
           pos == FramePosition(t, video)
       IN /\ FALSE \in ReadOutcomes(pos, video)
          /\ cap_calls' = Append(cap_calls, [ts |-> t, pos |-> pos, ret |-> FALSE])
          /\ skipped' = Append(skipped, [ts |-> t, reason |-> "read"])
    /\ i' = Len(timestamps) + 1
    /\ UNCHANGED <<mode, pc, video, timestamps, requested, handle_open,
                   screenshot_paths, outcome, errors, fs, zip_entries>>

\* one iteration: seek, the read returns no frame
IterReadFailed ==
    /\ pc = "loop"
    /\ i <= Len(timestamps)
    /\ ~ExceedsDuration(timestamps[i], video)
    /\ LET t == timestamps[i]
           pos == FramePosition(t, video)
       IN /\ FALSE \in ReadOutcomes(pos, video)
          /\ cap_calls' = Append(cap_calls, [ts |-> t, pos |-> pos, ret |-> FALSE])
          /\ skipped' = Append(skipped, [ts |-> t, reason |-> "read"])
    /\ i' = i + 1
    /\ UNCHANGED <<mode, pc, video, timestamps, requested, handle_open,
                   screenshot_paths, outcome, errors, fs, zip_entries>>

\* cap.release() and return screenshot_paths, temp_dir
Release ==
    /\ pc = "loop"
    /\ i > Len(timestamps)
    /\ handle_open' = FALSE
    /\ outcome' = "returned"
    /\ pc' = IF mode = "main" THEN "after_extract" ELSE "ended"
    /\ UNCHANGED <<mode, video, timestamps, requested, i, screenshot_paths,
                   skipped, cap_calls, errors, fs, zip_entries>>

-----------------------------------------------------------------------------
(* main(): after the extractor *)

\* create_zip_file: one entry per element of screenshot_paths, in order
ZipEntries(paths) == [k \in 1 .. Len(paths) |-> Arcname(paths[k])]

CreateZip ==
    /\ pc = "after_extract"
    /\ screenshot_paths # <<>>
    /\ zip_entries' = ZipEntries(screenshot_paths)
    /\ fs' = fs \cup {ZipPath}
    /\ pc' = "unlink"
    /\ UNCHANGED <<mode, video, timestamps, requested, handle_open, i,
                   screenshot_paths, skipped, cap_calls, outcome, errors>>

\* the result list is empty
NoScreenshots ==
    /\ pc = "after_extract"
    /\ screenshot_paths = <<>>
    /\ errors' = Append(errors, "no_screenshots")
    /\ pc' = "unlink"
    /\ UNCHANGED <<mode, video, timestamps, requested, handle_open, i,
                   screenshot_paths, skipped, cap_calls, outcome, fs, zip_entries>>

\* os.unlink(temp_video_path)
UnlinkVideo ==
    /\ pc = "unlink"
    /\ fs' = fs \ {TempVideoPath}
    /\ pc' = "ended"
    /\ UNCHANGED <<mode, video, timestamps, requested, handle_open, i,
                   screenshot_paths, skipped, cap_calls, outcome, errors, zip_entries>>

\* except Exception as e: two st.error calls, nothing else
HandleException ==
    /\ pc = "except"
    /\ errors' = errors \o <<"error_processing_video", "make_sure_video_is_valid">>
    /\ pc' = "ended"
    /\ UNCHANGED <<mode, video, timestamps, requested, handle_open, i,
                   screenshot_paths, skipped, cap_calls, outcome, fs, zip_entries>>

-----------------------------------------------------------------------------
Next ==
    \/ ProcessEmpty
    \/ ProcessVideo
    \/ CallExtract
    \/ OpenCapture
    \/ PropsRaise
    \/ Prepare
    \/ IterExceeds
    \/ IterCaptured
    \/ IterReadFailed
    \/ Release
    \/ CreateZip
    \/ NoScreenshots
    \/ UnlinkVideo
    \/ HandleException

Spec == Init /\ [][Next]_vars

-----------------------------------------------------------------------------
(* Vocabulary of the properties *)

Range(s) == {s[k] : k \in 1 .. Len(s)}

Count(x, s) == Cardinality({k \in 1 .. Len(s) : s[k] = x})

\* the target time of t lies beyond total_frames / fps
BeyondDuration(t) ==
    (t[1] * 60 + t[2]) * Fps(video) >= TotalFrames(video) + 1

\* the calls of the loop whose read returned a frame, in order
Captured == SelectSeq(cap_calls, LAMBDA c : c.ret)

\* the source timestamp, in seconds, of the k-th captured frame
SourceSeconds(k) == Captured[k].ts[1] * 60 + Captured[k].ts[2]

ExtractEnded == outcome # "none"

NoRepeats(s) == \A j, k \in 1 .. Len(s) : j # k => s[j] # s[k]

\* the screenshot files in the temporary directory
ScreenshotFiles == {p \in fs : p.dir = TempDir /\ p # ZipPath}

ZipBuilt == ZipPath \in fs

-----------------------------------------------------------------------------
\* C1: a request whose target time is greater than the duration is never
\* sought, read or captured, and once the loop has passed it it is recorded
\* as skipped; every screenshot of the result comes from a request that was
\* within the duration and whose read returned a frame.
C1_BeyondDurationSkipped ==
    /\ \A k \in 1 .. Len(cap_calls) :
          /\ ~BeyondDuration(cap_calls[k].ts)
          /\ cap_calls[k].ts \in Range(requested)
    /\ \A t \in Range(requested) :
          BeyondDuration(t) => ScreenshotPath(t) \notin Range(screenshot_paths) \cup fs
    /\ pc \in {"loop", "after_extract", "unlink", "ended"} =>
          \A k \in 1 .. (i - 1) :
             BeyondDuration(timestamps[k]) =>
                /\ [ts |-> timestamps[k], reason |-> "exceeds"] \in Range(skipped)
                /\ [ts |-> timestamps[k], reason |-> "read"] \notin Range(skipped)
    /\ Len(screenshot_paths) = Len(Captured)
    /\ \A k \in 1 .. Len(screenshot_paths) :
          screenshot_paths[k] = ScreenshotPath(Captured[k].ts)

\* an extraction that skipped one request as beyond the duration and
\* captured another
C1_Witness ==
    /\ outcome = "returned"
    /\ \E k \in 1 .. Len(skipped) : skipped[k].reason = "exceeds"
    /\ Len(screenshot_paths) >= 1

\* C4: a failed read or a request beyond the duration never ends the
\* extraction: the extractor raises only before the loop, and when it
\* returns every request was handled exactly once, as a screenshot or as a
\* skip.
C4_EveryRequestHandledOnce ==
    /\ outcome = "raised" => cap_calls = <<>> /\ skipped = <<>>
    /\ pc = "loop" => Len(screenshot_paths) + Len(skipped) = i - 1
    /\ outcome = "returned" =>
          /\ Len(screenshot_paths) + Len(skipped) = Len(requested)
          /\ \A t \in Timestamps :
                Count(t, requested) =
                    Count(ScreenshotPath(t), screenshot_paths)
                    + Cardinality({k \in 1 .. Len(skipped) : skipped[k].ts = t})

\* an extraction whose first read failed and which then went on to capture
\* the next request
C4_Witness ==
    /\ outcome = "returned"
    /\ Len(cap_calls) = 2
    /\ ~cap_calls[1].ret
    /\ cap_calls[2].ret
    /\ Len(screenshot_paths) = 1

-----------------------------------------------------------------------------
\* C2 (as claimed): when every request of a non-empty list is within the
\* duration of a video that has frames, all of which decode, the extraction
\* returns as many screenshots as requests and skips nothing.
C2_AllWithinDurationCaptured ==
    (/\ outcome = "returned"
     /\ requested # <<>>
     /\ video.healthy
     /\ TotalFrames(video) >= 1
     /\ \A t \in Range(requested) : ~BeyondDuration(t))
    => /\ Len(screenshot_paths) = Len(requested)
       /\ skipped = <<>>

-----------------------------------------------------------------------------
\* C3 (as claimed): the screenshots are in strictly ascending order of
\* their source timestamp, whatever the request list.
C3_StrictlyAscending ==
    \A j, k \in 1 .. Len(Captured) : j < k => SourceSeconds(j) < SourceSeconds(k)

\* C3 (amended): the screenshots are in ascending order of their source
\* timestamp whatever the input order; the order is strict when the request
\* list has no repeated timestamp, and a repeated timestamp gives
\* neighbouring screenshots of the same timestamp.
C3_Ascending ==
    /\ \A j, k \in 1 .. Len(Captured) : j < k => SourceSeconds(j) <= SourceSeconds(k)
    /\ NoRepeats(requested) =>
          \A j, k \in 1 .. Len(Captured) : j < k => SourceSeconds(j) < SourceSeconds(k)
    /\ Len(screenshot_paths) = Len(Captured)
    /\ \A k \in 1 .. Len(screenshot_paths) :
          screenshot_paths[k] = ScreenshotPath(Captured[k].ts)

\* two requests given latest first, both captured
C3_Witness ==
    /\ outcome = "returned"
    /\ Len(requested) = 2
    /\ requested[1][1] * 60 + requested[1][2] > requested[2][1] * 60 + requested[2][2]
    /\ Len(screenshot_paths) = 2

-----------------------------------------------------------------------------
\* C5 (as claimed): the extractor raises only when the video could not be
\* opened.
C5_RaisesOnlyWhenNotOpened ==
    outcome = "raised" => ~video.opened

\* C6 (as claimed): once the extractor has ended, by return or by raise,
\* no handle is open.
C6_HandleReleasedOnEveryExit ==
    ExtractEnded => ~handle_open

\* C7 (as claimed): when a processing run of the front-end has ended, no
\* temporary file or directory of it remains; stated here for the runs in
\* which the extractor returned.
C7_NoTemporaryLeft ==
    (mode = "main" /\ pc = "ended" /\ outcome = "returned") => fs = {}

\* C10 (as claimed): after the extractor has ended, the caller's list holds
\* the elements it held at the call, in the same order.
C10_CallerListUnchanged ==
    ExtractEnded => timestamps = requested

-----------------------------------------------------------------------------
\* C8 (as claimed): the archive's entries are bare names, each matches
\* exactly one screenshot of the sequence, the entries are the produced
\* screenshots, and they are in the sequence's order.
C8_ArchiveMatchesExactlyOne ==
    ZipBuilt =>
       /\ \A k \in 1 .. Len(zip_entries) : zip_entries[k].dir = ""
       /\ \A k \in 1 .. Len(zip_entries) :
             Cardinality({j \in 1 .. Len(screenshot_paths) :
                            screenshot_paths[j].name = zip_entries[k].name}) = 1
       /\ {zip_entries[k].name : k \in 1 .. Len(zip_entries)}
             = {p.name : p \in ScreenshotFiles}
       /\ Len(zip_entries) = Len(screenshot_paths)
       /\ \A k \in 1 .. Len(zip_entries) :
             zip_entries[k].name = screenshot_paths[k].name

\* C8 (amended): the archive has one entry per element of the screenshot
\* sequence, in the same order, each a bare name equal to that element's
\* deterministic name; the set of entry names is the set of screenshot
\* files produced; each name matches exactly one element when the request
\* list has no repeated timestamp, and a repeated timestamp gives repeated
\* entries of one name.
C8_ArchiveMatchesSequence ==
    /\ ~ZipBuilt => zip_entries = <<>>
    /\ ZipBuilt =>
       /\ Len(zip_entries) = Len(screenshot_paths)
       /\ Len(zip_entries) = Len(Captured)
       /\ \A k \in 1 .. Len(zip_entries) :
             zip_entries[k] =
                [dir |-> "", name |-> ScreenshotFilename(Captured[k].ts)]
       /\ {zip_entries[k].name : k \in 1 .. Len(zip_entries)}
             = {p.name : p \in ScreenshotFiles}
       /\ NoRepeats(requested) =>
             \A k \in 1 .. Len(zip_entries) :
                Cardinality({j \in 1 .. Len(screenshot_paths) :
                               screenshot_paths[j].name = zip_entries[k].name}) = 1

\* an archive built from a list that repeats a timestamp: two entries of
\* one name, one file
C8_Witness ==
    /\ ZipBuilt
    /\ Len(zip_entries) = 2
    /\ zip_entries[1] = zip_entries[2]
    /\ Cardinality(ScreenshotFiles) = 1

-----------------------------------------------------------------------------
====
